---- MODULE Spec2Model ----
(***************************************************************************)
(* Model of the Trassenfinder Infrastructure Explorer (tie).               *)
(*                                                                         *)
(*   api.rs      Infrastruktur -> StationMap (TryInto)                     *)
(*   widgets.rs  InfrastrukturSelectionWidget, MapWidget,                  *)
(*               ListSelectionWidget, up / down, calc_extent               *)
(*   events.rs   the input thread and its mpsc channel                     *)
(*   main.rs     the main loop                                             *)
(*                                                                         *)
(* Option<T> is a sequence of length at most one: None is <<>> and Some(v) *)
(* is <<v>>.  Vec indices are 0-based as in the source; element i of a Vec *)
(* v is v[i + 1].                                                          *)
(***************************************************************************)
EXTENDS Integers, Sequences, FiniteSets, TLC

VARIABLES
    termwidget,     \* main.rs: the TermWidget enum value (tag + widget)
    queue,          \* events.rs: events sent on the channel and not yet received
    stdin_open,     \* events.rs: the input thread is still reading stdin.keys()
    n_sent,         \* number of events the input thread has sent
    n_received,     \* number of events input_events.next() has returned
    pc,             \* position of main: "draw", "recv", "await", "done"
    in_flight,      \* ids of the MapWidget::from_url requests not yet completed
    last_load,      \* how the last completed MapWidget::from_url ended
    exit,           \* how main ended: "running", "ok", "error", "panic"
    last_key,       \* the key of the last event input_events.next() returned
    build_pc,       \* harness of the pure functions: "idle", "input", "done"
    document,       \* harness: the Infrastruktur given to try_into
    result,         \* harness: Option of the Result try_into returned
    sel_widget,     \* harness: the InfrastrukturSelectionWidget up / down act on
    sel_moves,      \* harness: the keys given to it so far
    sel_trace,      \* harness: `selected` at the start and after each key
    ext_pc,         \* harness of calc_extent: "idle", "input", "done"
    ext_coords,     \* harness: the coordinates given to calc_extent
    ext_result      \* harness: Option of what calc_extent did

vars == <<termwidget, queue, stdin_open, n_sent, n_received, pc, in_flight,
          last_load, exit, last_key, build_pc, document, result,
          sel_widget, sel_moves, sel_trace, ext_pc, ext_coords, ext_result>>

ui_vars == <<termwidget, queue, stdin_open, n_sent, n_received, pc, in_flight,
             last_load, exit, last_key>>

build_vars == <<build_pc, document, result>>

list_vars == <<sel_widget, sel_moves, sel_trace>>

extent_vars == <<ext_pc, ext_coords, ext_result>>

harness_vars == <<build_vars, list_vars, extent_vars>>

(***************************************************************************)
(* Bounds                                                                  *)
(***************************************************************************)
MaxStations == 2    \* station records of a document
MaxSegments == 2    \* segment records of a document
MaxInfra == 3       \* infrastructure summaries the index service returns
MaxKeys == 3        \* key events the input thread sends in one run
MaxMoves == 3       \* keys given to a selection list on its own
MaxCoords == 2      \* coordinates given to calc_extent on its own

(***************************************************************************)
(* Option and Result                                                       *)
(***************************************************************************)
None == <<>>

Some(v) == <<v>>

Ok(v) == [ok |-> TRUE, value |-> <<v>>, error |-> <<>>]

Err(e) == [ok |-> FALSE, value |-> <<>>, error |-> <<e>>]

SeqsUpTo(S, n) == UNION {[1..k -> S] : k \in 0..n}

(***************************************************************************)
(* api.rs                                                                  *)
(***************************************************************************)
Station(ds100, longname, coord) ==
    [ds100 |-> ds100, longname |-> longname, coord |-> coord]

Segment(from, to, routenumber) ==
    [from |-> from, to |-> to, routenumber |-> routenumber]

Betriebsstelle(x, y, ds100, langname) ==
    [x |-> x, y |-> y, ds100 |-> ds100, langname |-> langname]

Streckensegment(von, bis, streckennummer) ==
    [von |-> von, bis |-> bis, streckennummer |-> streckennummer]

Infrastruktur(id, anzeigename, betriebsstellen, streckensegmente) ==
    [id |-> id, anzeigename |-> anzeigename,
     ordnungsrahmen |-> [betriebsstellen |-> betriebsstellen,
                         streckensegmente |-> streckensegmente]]

\* format!("{}-{}-{}", self.von, self.streckennummer, self.bis)
Streckensegment_to_string(s) ==
    s.von \o "-" \o ToString(s.streckennummer) \o "-" \o s.bis

\* self.stations.iter().map(|station| station.coord).collect()
StationMap_coordinates(station_map) ==
    [i \in 1..Len(station_map.stations) |-> station_map.stations[i].coord]

\* HashMap<&str, Station>: a function from the inserted keys to their values
HashMap_new == <<>>

\* an insert that keeps the value a key already has: not what the code does
HashMap_insert_keepFirst(map, k, v) ==
    [x \in (DOMAIN map) \cup {k} |-> IF x \in DOMAIN map THEN map[x] ELSE v]

HashMap_insert(map, k, v) ==
    [x \in (DOMAIN map) \cup {k} |-> IF x = k THEN v ELSE map[x]]

\* a lookup that folds the case of the key: not what the code does
HashMap_get_nocase(map, k) ==
    LET fold(c) == IF c = "a" THEN "A" ELSE IF c = "b" THEN "B" ELSE c
    IN  IF \E x \in DOMAIN map : fold(x) = fold(k)
          THEN Some(map[CHOOSE x \in DOMAIN map : fold(x) = fold(k)])
          ELSE None

\* keys are compared by exact string equality
HashMap_get(map, k) ==
    IF k \in DOMAIN map THEN Some(map[k]) ELSE None

\* betriebsstellen.into_iter().map(|bst| Station {..}).collect()
RECURSIVE CollectStations(_)
CollectStations(betriebsstellen) ==
    IF betriebsstellen = <<>> THEN <<>>
    ELSE LET bst == Head(betriebsstellen)
         IN  <<Station(bst.ds100, bst.langname, <<bst.x, bst.y>>)>>
                 \o CollectStations(Tail(betriebsstellen))

\* for station in &stations { stations_index_map.insert(..) }
RECURSIVE StationsIndexMap(_, _)
StationsIndexMap(map, stations) ==
    IF stations = <<>> THEN map
    ELSE StationsIndexMap(
             HashMap_insert(map, Head(stations).ds100, Head(stations)),
             Tail(stations))

\* "Station '{}' for Segment '{}' not found"
NotFound(code, streckensegment) ==
    [station |-> code, segment |-> Streckensegment_to_string(streckensegment)]

\* a loop body that copies the resolved `from` into both ends: not the code
RECURSIVE ResolveSegments_sameEnd(_, _, _)
ResolveSegments_sameEnd(stations_index_map, streckensegmente, segments) ==
    IF streckensegmente = <<>> THEN Ok(segments)
    ELSE LET streckensegment == Head(streckensegmente)
             from == HashMap_get(stations_index_map, streckensegment.von)
             to == HashMap_get(stations_index_map, streckensegment.bis)
         IN  IF from = None
               THEN Err(NotFound(streckensegment.von, streckensegment))
             ELSE IF to = None
               THEN Err(NotFound(streckensegment.bis, streckensegment))
             ELSE ResolveSegments_sameEnd(
                      stations_index_map, Tail(streckensegmente),
                      Append(segments,
                             Segment(from[1], from[1],
                                     streckensegment.streckennummer)))

\* a loop body that resolves `bis` before `von`: not what the code does
RECURSIVE ResolveSegments_toFirst(_, _, _)
ResolveSegments_toFirst(stations_index_map, streckensegmente, segments) ==
    IF streckensegmente = <<>> THEN Ok(segments)
    ELSE LET streckensegment == Head(streckensegmente)
             from == HashMap_get(stations_index_map, streckensegment.von)
             to == HashMap_get(stations_index_map, streckensegment.bis)
         IN  IF to = None
               THEN Err(NotFound(streckensegment.bis, streckensegment))
             ELSE IF from = None
               THEN Err(NotFound(streckensegment.von, streckensegment))
             ELSE ResolveSegments_toFirst(
                      stations_index_map, Tail(streckensegmente),
                      Append(segments,
                             Segment(from[1], to[1],
                                     streckensegment.streckennummer)))

\* for streckensegment in streckensegmente { .. ? .. segments.push(..) }
RECURSIVE ResolveSegments(_, _, _)
ResolveSegments(stations_index_map, streckensegmente, segments) ==
    IF streckensegmente = <<>> THEN Ok(segments)
    ELSE LET streckensegment == Head(streckensegmente)
             from == HashMap_get(stations_index_map, streckensegment.von)
             to == HashMap_get(stations_index_map, streckensegment.bis)
         IN  IF from = None
               THEN Err(NotFound(streckensegment.von, streckensegment))
             ELSE IF to = None
               THEN Err(NotFound(streckensegment.bis, streckensegment))
             ELSE ResolveSegments(
                      stations_index_map, Tail(streckensegmente),
                      Append(segments,
                             Segment(from[1], to[1],
                                     streckensegment.streckennummer)))

\* impl TryInto<StationMap> for Infrastruktur
TryInto(self) ==
    LET betriebsstellen == self.ordnungsrahmen.betriebsstellen
        streckensegmente == self.ordnungsrahmen.streckensegmente
        stations == CollectStations(betriebsstellen)
        stations_index_map == StationsIndexMap(HashMap_new, stations)
        segments == ResolveSegments(stations_index_map, streckensegmente, <<>>)
    IN  IF segments.ok
          THEN Ok([id |-> self.id, name |-> self.anzeigename,
                   stations |-> stations, segments |-> segments.value[1]])
          ELSE Err(segments.error[1])

(***************************************************************************)
(* widgets.rs: up / down                                                   *)
(***************************************************************************)
\* a down that does not clamp at the last index: not what the code does
down_noclamp(values, selected) ==
    IF Len(values) = 0 THEN None
    ELSE IF selected # None THEN Some(selected[1] + 1)
    ELSE Some(0)

\* an up whose guard is off by one: not what the code does
up_guard1(values, selected) ==
    IF Len(values) = 0 THEN None
    ELSE IF selected # None
      THEN LET index == selected[1]
           IN  IF index > 1 THEN Some(index - 1) ELSE Some(index)
    ELSE Some(0)

\* an up that wraps from the first entry to the last: not what the code does
up_wrap(values, selected) ==
    IF Len(values) = 0 THEN None
    ELSE IF selected # None
      THEN LET index == selected[1]
           IN  IF index > 0 THEN Some(index - 1) ELSE Some(Len(values) - 1)
    ELSE Some(0)

\* an up that leaves an absent selection absent: not what the code does
up_noneStays(values, selected) ==
    IF Len(values) = 0 THEN None
    ELSE IF selected # None
      THEN LET index == selected[1]
           IN  IF index > 0 THEN Some(index - 1) ELSE Some(index)
    ELSE None

\* fn up<T>(values: &[T], selected: Option<usize>) -> Option<usize>
up(values, selected) ==
    IF Len(values) = 0 THEN None
    ELSE IF selected # None
      THEN LET index == selected[1]
           IN  IF index > 0 THEN Some(index - 1) ELSE Some(index)
    ELSE Some(0)

\* fn down<T>(values: &[T], selected: Option<usize>) -> Option<usize>
down(values, selected) ==
    IF Len(values) = 0 THEN None
    ELSE LET max_index == Len(values) - 1
         IN  IF selected # None
               THEN LET index == selected[1]
                    IN  IF index < max_index THEN Some(index + 1)
                        ELSE Some(index)
             ELSE Some(0)

(***************************************************************************)
(* widgets.rs: ListSelectionWidget                                         *)
(***************************************************************************)
ListSelectionWidget_new(title, names) ==
    [title |-> title, names |-> names,
     selected |-> IF names = <<>> THEN None ELSE Some(0)]

ListSelectionWidget_up(self) ==
    [self EXCEPT !.selected = up(self.names, self.selected)]

ListSelectionWidget_down(self) ==
    [self EXCEPT !.selected = down(self.names, self.selected)]

\* a key_select that rewinds the list on any other key: not what the code does
ListSelectionWidget_key_select_rewind(self, key) ==
    CASE key = "Up" -> ListSelectionWidget_up(self)
      [] key = "Down" -> ListSelectionWidget_down(self)
      [] OTHER -> [self EXCEPT !.selected =
                       IF self.names = <<>> THEN None ELSE Some(0)]

ListSelectionWidget_key_select(self, key) ==
    CASE key = "Up" -> ListSelectionWidget_up(self)
      [] key = "Down" -> ListSelectionWidget_down(self)
      [] OTHER -> self

(***************************************************************************)
(* widgets.rs: InfrastrukturSelectionWidget                                *)
(***************************************************************************)
\* the fields of InfrastrukturIndex the program reads
InfrastrukturIndex(id, anzeigename) == [id |-> id, anzeigename |-> anzeigename]

InfrastrukturSelectionWidget_new(values) ==
    [values |-> values,
     items |-> [i \in 1..Len(values) |->
                   ToString(values[i].id) \o ": " \o values[i].anzeigename],
     selected |-> IF values = <<>> THEN None ELSE Some(0)]

\* indices.sort_by_key(|k| k.id): a stable sort, here by insertion
RECURSIVE InsertByKey(_, _)
InsertByKey(sorted, index) ==
    IF sorted = <<>> THEN <<index>>
    ELSE IF sorted[Len(sorted)].id <= index.id THEN Append(sorted, index)
    ELSE Append(InsertByKey(SubSeq(sorted, 1, Len(sorted) - 1), index),
                sorted[Len(sorted)])

RECURSIVE SortByKey(_)
SortByKey(indices) ==
    IF indices = <<>> THEN <<>>
    ELSE InsertByKey(SortByKey(SubSeq(indices, 1, Len(indices) - 1)),
                     indices[Len(indices)])

\* InfrastrukturSelectionWidget::from_url on a response that read and parsed
InfrastrukturSelectionWidget_from_url(indices) ==
    InfrastrukturSelectionWidget_new(SortByKey(indices))

InfrastrukturSelectionWidget_selected_value(self) ==
    IF self.selected # None THEN Some(self.values[self.selected[1] + 1])
    ELSE None

\* a key_select in which every unnamed key confirms too: not the code
InfrastrukturSelectionWidget_key_select_anyKey(self, key) ==
    CASE key = "Up" ->
           [widget |-> [self EXCEPT !.selected = up(self.values, self.selected)],
            ret |-> None]
      [] key = "Down" ->
           [widget |-> [self EXCEPT !.selected = down(self.values, self.selected)],
            ret |-> None]
      [] OTHER ->
           [widget |-> self,
            ret |-> InfrastrukturSelectionWidget_selected_value(self)]

\* key_select(&mut self, key) -> Option<&InfrastrukturIndex>:
\* the widget after the call and the value returned
InfrastrukturSelectionWidget_key_select(self, key) ==
    CASE key = "Up" ->
           [widget |-> [self EXCEPT !.selected = up(self.values, self.selected)],
            ret |-> None]
      [] key = "Down" ->
           [widget |-> [self EXCEPT !.selected = down(self.values, self.selected)],
            ret |-> None]
      [] key = "Enter" ->
           [widget |-> self,
            ret |-> InfrastrukturSelectionWidget_selected_value(self)]
      [] OTHER -> [widget |-> self, ret |-> None]

(***************************************************************************)
(* widgets.rs: calc_extent and MapWidget                                   *)
(***************************************************************************)
\* a call that returns v, and a call that panics
Returns(v) == [panic |-> FALSE, value |-> <<v>>]

Panic == [panic |-> TRUE, value |-> <<>>]

\* f64::NAN; every other f64 of the model is an integer >= 0
NaN == -1

\* OrderedFloat<f64> as Ord: NaN equals NaN and is greater than every number
OrderedFloat_le(a, b) ==
    IF b = NaN THEN TRUE
    ELSE IF a = NaN THEN FALSE
    ELSE a <= b

\* Iterator::min over OrderedFloat: None on an empty iterator
RECURSIVE Iter_min(_)
Iter_min(xs) ==
    IF xs = <<>> THEN None
    ELSE LET rest == Iter_min(Tail(xs))
         IN  IF rest = None THEN Some(Head(xs))
             ELSE IF OrderedFloat_le(Head(xs), rest[1]) THEN Some(Head(xs))
             ELSE rest

\* Iterator::max over OrderedFloat: None on an empty iterator
RECURSIVE Iter_max(_)
Iter_max(xs) ==
    IF xs = <<>> THEN None
    ELSE LET rest == Iter_max(Tail(xs))
         IN  IF rest = None THEN Some(Head(xs))
             ELSE IF ~OrderedFloat_le(Head(xs), rest[1]) THEN Some(Head(xs))
             ELSE rest

\* a calc_extent that takes max_y from the x coordinates: not the code
calc_extent_copyPaste(coords) ==
    LET x_coords == [i \in 1..Len(coords) |-> coords[i][1]]
        y_coords == [i \in 1..Len(coords) |-> coords[i][2]]
    IN  IF Iter_min(x_coords) = None THEN Panic
        ELSE Returns([min_x |-> Iter_min(x_coords)[1],
                      max_x |-> Iter_max(x_coords)[1],
                      min_y |-> Iter_min(y_coords)[1],
                      max_y |-> Iter_max(x_coords)[1]])

\* a calc_extent that answers an empty slice with a zero Extent: not the code
calc_extent_emptyZero(coords) ==
    LET x_coords == [i \in 1..Len(coords) |-> coords[i][1]]
        y_coords == [i \in 1..Len(coords) |-> coords[i][2]]
    IN  IF Iter_min(x_coords) = None
          THEN Returns([min_x |-> 0, max_x |-> 0, min_y |-> 0, max_y |-> 0])
        ELSE Returns([min_x |-> Iter_min(x_coords)[1],
                      max_x |-> Iter_max(x_coords)[1],
                      min_y |-> Iter_min(y_coords)[1],
                      max_y |-> Iter_max(y_coords)[1]])

\* fn calc_extent(coords: &[(f64, f64)]) -> Extent; unwrap() panics on None
calc_extent(coords) ==
    LET x_coords == [i \in 1..Len(coords) |-> coords[i][1]]
        y_coords == [i \in 1..Len(coords) |-> coords[i][2]]
    IN  IF Iter_min(x_coords) = None THEN Panic
        ELSE Returns([min_x |-> Iter_min(x_coords)[1],
                      max_x |-> Iter_max(x_coords)[1],
                      min_y |-> Iter_min(y_coords)[1],
                      max_y |-> Iter_max(y_coords)[1]])

\* format!("{} ({})", station.ds100, station.longname)
StationName(station) == station.ds100 \o " (" \o station.longname \o ")"

\* format!("{} ({} -> {})", segment.routenumber, segment.from.ds100, segment.to.ds100)
SegmentName(segment) ==
    ToString(segment.routenumber) \o " (" \o segment.from.ds100 \o " -> "
        \o segment.to.ds100 \o ")"

\* a struct literal with the two list widgets exchanged: not the code
MapWidget_fields_swapped(station_map, extent, widget_selection) ==
    [station_map |-> station_map,
     coordinates |-> StationMap_coordinates(station_map),
     extent |-> extent,
     stations_widget |->
         ListSelectionWidget_new("Betriebsstellen",
             [i \in 1..Len(station_map.segments) |->
                 SegmentName(station_map.segments[i])]),
     segments_widget |->
         ListSelectionWidget_new("Streckensegmente",
             [i \in 1..Len(station_map.stations) |->
                 StationName(station_map.stations[i])]),
     widget_selection |-> widget_selection]

MapWidget_fields(station_map, extent, widget_selection) ==
    [station_map |-> station_map,
     coordinates |-> StationMap_coordinates(station_map),
     extent |-> extent,
     stations_widget |->
         ListSelectionWidget_new("Betriebsstellen",
             [i \in 1..Len(station_map.stations) |->
                 StationName(station_map.stations[i])]),
     segments_widget |->
         ListSelectionWidget_new("Streckensegmente",
             [i \in 1..Len(station_map.segments) |->
                 SegmentName(station_map.segments[i])]),
     widget_selection |-> widget_selection]

\* a constructor that starts on the segments list: not what the code does
MapWidget_new_segmentsActive(station_map) ==
    LET extent == calc_extent(StationMap_coordinates(station_map))
    IN  IF extent.panic THEN Panic
        ELSE Returns(MapWidget_fields(station_map, extent.value[1], "Segments"))

\* MapWidget::new(station_map: StationMap) -> Self
MapWidget_new(station_map) ==
    LET extent == calc_extent(StationMap_coordinates(station_map))
    IN  IF extent.panic THEN Panic
        ELSE Returns(MapWidget_fields(station_map, extent.value[1], "Stations"))

\* a key_select that hands the key to both lists: not what the code does
MapWidget_key_select_both(self, key) ==
    LET selection == CASE key = "b" -> "Stations"
                       [] key = "s" -> "Segments"
                       [] OTHER -> self.widget_selection
    IN  [self EXCEPT
           !.widget_selection = selection,
           !.stations_widget =
               ListSelectionWidget_key_select(self.stations_widget, key),
           !.segments_widget =
               ListSelectionWidget_key_select(self.segments_widget, key)]

\* MapWidget::key_select(&mut self, key: Key)
MapWidget_key_select(self, key) ==
    LET selection == CASE key = "b" -> "Stations"
                       [] key = "s" -> "Segments"
                       [] OTHER -> self.widget_selection
    IN  IF selection = "Stations"
          THEN [self EXCEPT
                  !.widget_selection = selection,
                  !.stations_widget =
                      ListSelectionWidget_key_select(self.stations_widget, key)]
          ELSE [self EXCEPT
                  !.widget_selection = selection,
                  !.segments_widget =
                      ListSelectionWidget_key_select(self.segments_widget, key)]

\* slice::get(index): None when index is out of range
Vec_get(v, index) == IF index < Len(v) THEN Some(v[index + 1]) ELSE None

\* MapWidget::draw: the station and the segment it highlights
MapWidget_draw_selected(self) ==
    [selected_station |->
         IF self.stations_widget.selected = None THEN None
         ELSE Vec_get(self.station_map.stations, self.stations_widget.selected[1]),
     selected_segment |->
         IF self.segments_widget.selected = None THEN None
         ELSE Vec_get(self.station_map.segments, self.segments_widget.selected[1])]

\* an error MapWidget::from_url returns: which step failed, and the cause
\* when that step is the conversion to a StationMap
LoadError(kind, cause) == [kind |-> kind, cause |-> cause]

\* MapWidget::from_url on the response of the service: reqwest::get failed
\* ("transport"), .json() failed ("format"), or a parsed Infrastruktur
MapWidget_from_url(response) ==
    IF response.kind = "transport" THEN Returns(Err(LoadError("transport", None)))
    ELSE IF response.kind = "format" THEN Returns(Err(LoadError("format", None)))
    ELSE LET station_map == TryInto(response.body[1])
         IN  IF ~station_map.ok
               THEN Returns(Err(LoadError("reference", station_map.error)))
             ELSE LET widget == MapWidget_new(station_map.value[1])
                  IN  IF widget.panic THEN Panic
                      ELSE Returns(Ok(widget.value[1]))

(***************************************************************************)
(* Inputs                                                                  *)
(***************************************************************************)
\* termion keys: Key::Up, Key::Down, Key::Char('\n'), Key::Char('b'),
\* Key::Char('s'), Key::Char('q'), and Key::Esc for every key no match names
Keys == {"Up", "Down", "Enter", "b", "s", "q", "Esc"}

IndexRecs == {InfrastrukturIndex(i, "Fahrplan") : i \in 1..MaxInfra}

\* the index lists the service answers with: summaries with distinct ids,
\* in any order
IndexLists ==
    {indices \in SeqsUpTo(IndexRecs, MaxInfra) :
        \A i, j \in 1..Len(indices) : i # j => indices[i].id # indices[j].id}

\* the documents the service answers with in the runs of the main loop:
\* no station; one station; the two stations of the scenario with no, one
\* and two segments; a segment naming an absent code; a repeated code
UiDocuments(id) ==
    LET A == Betriebsstelle(0, 0, "A", "Alpha")
        B == Betriebsstelle(1, 1, "B", "Beta")
        A2 == Betriebsstelle(2, 3, "A", "Alt")
        AB == Streckensegment("A", "B", 42)
        BA == Streckensegment("B", "A", 7)
        AC == Streckensegment("A", "C", 1)
    IN  {Infrastruktur(id, "Fahrplan", <<>>, <<>>),
         Infrastruktur(id, "Fahrplan", <<A>>, <<>>),
         Infrastruktur(id, "Fahrplan", <<A, B>>, <<>>),
         Infrastruktur(id, "Fahrplan", <<A, B>>, <<AB>>),
         Infrastruktur(id, "Fahrplan", <<A, B>>, <<AB, BA>>),
         Infrastruktur(id, "Fahrplan", <<A, B>>, <<AB, AC>>),
         Infrastruktur(id, "Fahrplan", <<A, B, A2>>, <<AB, BA>>)}

Responses(id) ==
    {[kind |-> "transport", body |-> None], [kind |-> "format", body |-> None]}
        \cup {[kind |-> "json", body |-> Some(d)] : d \in UiDocuments(id)}

\* the records of the documents given to try_into on its own
StationCodes == {"A", "B"}

SegmentCodes == {"A", "B", "a"}

Betriebsstellen ==
    {Betriebsstelle(c[1], c[2], ds100, c[3]) :
        c \in {<<0, 0, "Alpha">>, <<1, 2, "Beta">>}, ds100 \in StationCodes}

Streckensegmente ==
    {Streckensegment(von, bis, nr) :
        von \in SegmentCodes, bis \in SegmentCodes, nr \in {1, 42}}

NoDocument == Infrastruktur(0, "", <<>>, <<>>)

(***************************************************************************)
(* main.rs and events.rs                                                   *)
(***************************************************************************)
TermWidget(tag, widget) == [tag |-> tag, widget |-> widget]

\* a receive that returns the newest event: not what an mpsc channel does
rx_recv_newest(q) ==
    [event |-> q[Len(q)], rest |-> SubSeq(q, 1, Len(q) - 1)]

\* self.rx.recv() on a channel holding q: the oldest event, and what is left
rx_recv(q) == [event |-> Head(q), rest |-> Tail(q)]

\* a quit test that matches another key: not what the code does
IsQuit_upper(key) == key = "Q"

\* Key::Char('q') => { terminal.clear()?; break; }
IsQuit(key) == key = "q"

\* a match in which 'b' leaves the map for an empty picker: not the code
Main_dispatch_back(tw, key) ==
    IF tw.tag = "InfrastrukturSelection"
      THEN LET r == InfrastrukturSelectionWidget_key_select(tw.widget, key)
           IN  [termwidget |-> TermWidget(tw.tag, r.widget),
                request |-> IF r.ret # None THEN Some(r.ret[1].id) ELSE None]
      ELSE IF key = "b"
        THEN [termwidget |-> TermWidget("InfrastrukturSelection",
                                 InfrastrukturSelectionWidget_new(<<>>)),
              request |-> None]
        ELSE [termwidget |-> TermWidget(tw.tag, MapWidget_key_select(tw.widget, key)),
              request |-> None]

\* key @ _ => match termwidget { .. }: the widget after the key, and the id
\* of the infrastructure to load when the picker returned one
Main_dispatch(tw, key) ==
    IF tw.tag = "InfrastrukturSelection"
      THEN LET r == InfrastrukturSelectionWidget_key_select(tw.widget, key)
           IN  [termwidget |-> TermWidget(tw.tag, r.widget),
                request |-> IF r.ret # None THEN Some(r.ret[1].id) ELSE None]
      ELSE [termwidget |-> TermWidget(tw.tag, MapWidget_key_select(tw.widget, key)),
            request |-> None]

\* the state after InfrastrukturSelectionWidget::from_url succeeded and
\* Events::new() spawned the input thread
Init ==
    /\ \E indices \in IndexLists :
           termwidget = TermWidget("InfrastrukturSelection",
                            InfrastrukturSelectionWidget_from_url(indices))
    /\ queue = <<>>
    /\ stdin_open = TRUE
    /\ n_sent = 0
    /\ n_received = 0
    /\ pc = "draw"
    /\ in_flight = <<>>
    /\ last_load = "none"
    /\ exit = "running"
    /\ last_key = "none"
    /\ build_pc = "idle"
    /\ document = NoDocument
    /\ result = None
    /\ sel_widget = InfrastrukturSelectionWidget_new(<<>>)
    /\ sel_moves = <<>>
    /\ sel_trace = <<>>
    /\ ext_pc = "idle"
    /\ ext_coords = <<>>
    /\ ext_result = None

\* input thread: tx.send(Event::Input(key))
KeyPress(key) ==
    /\ stdin_open
    /\ pc # "done"
    /\ n_sent < MaxKeys
    /\ queue' = Append(queue, [key |-> key, seq |-> n_sent + 1])
    /\ n_sent' = n_sent + 1
    /\ UNCHANGED <<termwidget, stdin_open, n_received, pc, in_flight,
                   last_load, exit, last_key, harness_vars>>

\* input thread: stdin.keys() ends, the thread returns and drops tx
StdinEof ==
    /\ stdin_open
    /\ pc # "done"
    /\ stdin_open' = FALSE
    /\ UNCHANGED <<termwidget, queue, n_sent, n_received, pc, in_flight,
                   last_load, exit, last_key, harness_vars>>

\* terminal.draw(..)? renders the current widget; it reads the state only
Draw ==
    /\ pc = "draw"
    /\ pc' = "recv"
    /\ UNCHANGED <<termwidget, queue, stdin_open, n_sent, n_received,
                   in_flight, last_load, exit, last_key, harness_vars>>

\* terminal.draw(..)? fails: main returns the error
DrawFails ==
    /\ pc = "draw"
    /\ pc' = "done"
    /\ exit' = "error"
    /\ UNCHANGED <<termwidget, queue, stdin_open, n_sent, n_received,
                   in_flight, last_load, last_key, harness_vars>>

\* input_events.next()? on an empty channel whose sender is gone
RecvDisconnected ==
    /\ pc = "recv"
    /\ queue = <<>>
    /\ ~stdin_open
    /\ pc' = "done"
    /\ exit' = "error"
    /\ UNCHANGED <<termwidget, queue, stdin_open, n_sent, n_received,
                   in_flight, last_load, last_key, harness_vars>>

\* Key::Char('q') => { terminal.clear()?; break; }
Quit ==
    /\ pc = "recv"
    /\ queue # <<>>
    /\ IsQuit(rx_recv(queue).event.key)
    /\ queue' = rx_recv(queue).rest
    /\ n_received' = n_received + 1
    /\ last_key' = rx_recv(queue).event.key
    /\ pc' = "done"
    /\ exit' \in {"ok", "error"}
    /\ UNCHANGED <<termwidget, stdin_open, n_sent, in_flight, last_load,
                   harness_vars>>

\* a key other than 'q', received while the picker is the live widget
PickerKey ==
    /\ pc = "recv"
    /\ queue # <<>>
    /\ ~IsQuit(rx_recv(queue).event.key)
    /\ termwidget.tag = "InfrastrukturSelection"
    /\ queue' = rx_recv(queue).rest
    /\ n_received' = n_received + 1
    /\ last_key' = rx_recv(queue).event.key
    /\ LET d == Main_dispatch(termwidget, rx_recv(queue).event.key)
       IN  /\ termwidget' = d.termwidget
           /\ IF d.request # None
                THEN /\ in_flight' = Append(in_flight, d.request[1])
                     /\ pc' = "await"
                ELSE /\ in_flight' = in_flight
                     /\ pc' = "draw"
    /\ UNCHANGED <<stdin_open, n_sent, last_load, exit, harness_vars>>

\* a key other than 'q', received while the map is the live widget
MapKey ==
    /\ pc = "recv"
    /\ queue # <<>>
    /\ ~IsQuit(rx_recv(queue).event.key)
    /\ termwidget.tag = "Map"
    /\ queue' = rx_recv(queue).rest
    /\ n_received' = n_received + 1
    /\ last_key' = rx_recv(queue).event.key
    /\ LET d == Main_dispatch(termwidget, rx_recv(queue).event.key)
       IN  /\ termwidget' = d.termwidget
           /\ IF d.request # None
                THEN /\ in_flight' = Append(in_flight, d.request[1])
                     /\ pc' = "await"
                ELSE /\ in_flight' = in_flight
                     /\ pc' = "draw"
    /\ UNCHANGED <<stdin_open, n_sent, last_load, exit, harness_vars>>

\* MapWidget::from_url(&opt.api_url, infrastruktur_index.id).await? completes
LoadCompletes ==
    /\ pc = "await"
    /\ in_flight # <<>>
    /\ \E response \in Responses(Head(in_flight)) :
           LET r == MapWidget_from_url(response)
           IN  IF r.panic
                 THEN /\ pc' = "done"
                      /\ exit' = "panic"
                      /\ last_load' = "panic"
                      /\ termwidget' = termwidget
               ELSE IF ~r.value[1].ok
                 THEN /\ pc' = "done"
                      /\ exit' = "error"
                      /\ last_load' = r.value[1].error[1].kind
                      /\ termwidget' = termwidget
               ELSE /\ pc' = "draw"
                    /\ exit' = exit
                    /\ last_load' = "ok"
                    /\ termwidget' = TermWidget("Map", r.value[1].value[1])
    /\ in_flight' = Tail(in_flight)
    /\ UNCHANGED <<queue, stdin_open, n_sent, n_received, last_key, harness_vars>>

Next ==
    \/ \E key \in Keys : KeyPress(key)
    \/ StdinEof
    \/ Draw
    \/ DrawFails
    \/ RecvDisconnected
    \/ Quit
    \/ PickerKey
    \/ MapKey
    \/ LoadCompletes

Spec == Init /\ [][Next]_vars

(***************************************************************************)
(* try_into on its own, on every document within the bounds                *)
(***************************************************************************)
InitBuild ==
    /\ termwidget = TermWidget("InfrastrukturSelection",
                        InfrastrukturSelectionWidget_new(<<>>))
    /\ queue = <<>>
    /\ stdin_open = FALSE
    /\ n_sent = 0
    /\ n_received = 0
    /\ pc = "idle"
    /\ in_flight = <<>>
    /\ last_load = "none"
    /\ exit = "running"
    /\ last_key = "none"
    /\ build_pc = "input"
    /\ \E bst \in SeqsUpTo(Betriebsstellen, MaxStations),
          seg \in SeqsUpTo(Streckensegmente, MaxSegments) :
           document = Infrastruktur(1, "Fahrplan", bst, seg)
    /\ result = None
    /\ sel_widget = InfrastrukturSelectionWidget_new(<<>>)
    /\ sel_moves = <<>>
    /\ sel_trace = <<>>
    /\ ext_pc = "idle"
    /\ ext_coords = <<>>
    /\ ext_result = None

\* infrastruktur.try_into()
Build ==
    /\ build_pc = "input"
    /\ result' = Some(TryInto(document))
    /\ build_pc' = "done"
    /\ UNCHANGED <<document, ui_vars, list_vars, extent_vars>>

NextBuild == Build

SpecBuild == InitBuild /\ [][NextBuild]_vars

(***************************************************************************)
(* up / down on their own: a picker with any list within the bounds and    *)
(* any `selected`, given any Up and Down keys                              *)
(***************************************************************************)
\* the UI and the other harnesses at rest
UiAtRest ==
    /\ termwidget = TermWidget("InfrastrukturSelection",
                        InfrastrukturSelectionWidget_new(<<>>))
    /\ queue = <<>>
    /\ stdin_open = FALSE
    /\ n_sent = 0
    /\ n_received = 0
    /\ pc = "idle"
    /\ in_flight = <<>>
    /\ last_load = "none"
    /\ exit = "running"
    /\ last_key = "none"

InitList ==
    /\ UiAtRest
    /\ build_pc = "idle"
    /\ document = NoDocument
    /\ result = None
    /\ ext_pc = "idle"
    /\ ext_coords = <<>>
    /\ ext_result = None
    /\ \E indices \in IndexLists, selected \in {None} \cup {Some(i) : i \in 0..MaxInfra - 1} :
           /\ sel_widget =
                  [InfrastrukturSelectionWidget_from_url(indices)
                      EXCEPT !.selected = selected]
           /\ sel_trace = <<selected>>
    /\ sel_moves = <<>>

\* widget.key_select(key) for Key::Up and Key::Down
ListKey(key) ==
    /\ Len(sel_moves) < MaxMoves
    /\ Len(sel_trace) = Len(sel_moves) + 1
    /\ LET r == InfrastrukturSelectionWidget_key_select(sel_widget, key)
       IN  /\ sel_widget' = r.widget
           /\ sel_trace' = Append(sel_trace, r.widget.selected)
    /\ sel_moves' = Append(sel_moves, key)
    /\ UNCHANGED <<ui_vars, build_vars, extent_vars>>

NextList == \E key \in {"Up", "Down"} : ListKey(key)

SpecList == InitList /\ [][NextList]_vars

(***************************************************************************)
(* calc_extent on its own, on every coordinate slice within the bounds     *)
(***************************************************************************)
CoordValues == {0, 1, 2, NaN}

InitExtent ==
    /\ UiAtRest
    /\ build_pc = "idle"
    /\ document = NoDocument
    /\ result = None
    /\ sel_widget = InfrastrukturSelectionWidget_new(<<>>)
    /\ sel_moves = <<>>
    /\ sel_trace = <<>>
    /\ ext_pc = "input"
    /\ ext_coords \in SeqsUpTo(CoordValues \X CoordValues, MaxCoords)
    /\ ext_result = None

\* calc_extent(&coordinates)
CalcExtent ==
    /\ ext_pc = "input"
    /\ ext_result' = Some(calc_extent(ext_coords))
    /\ ext_pc' = "done"
    /\ UNCHANGED <<ext_coords, ui_vars, build_vars, list_vars>>

NextExtent == CalcExtent

SpecExtent == InitExtent /\ [][NextExtent]_vars

(***************************************************************************)
(* Properties                                                              *)
(***************************************************************************)
IsPicker == termwidget.tag = "InfrastrukturSelection"

IsMap == termwidget.tag = "Map"

\* main received an event with this key in this step
Received(key) ==
    /\ pc = "recv"
    /\ queue # <<>>
    /\ n_received' = n_received + 1
    /\ last_key' = key

SelectionInBounds(len, selected) ==
    /\ selected = None <=> len = 0
    /\ selected # None => 0 <= selected[1] /\ selected[1] < len

\* C1: in every state of the main loop, for the picker list, the stations
\* list and the segments list, `selected` is None iff the list is empty and
\* otherwise 0 <= selected < length of the list.
C1_SelectionInBounds ==
    /\ IsPicker =>
         /\ SelectionInBounds(Len(termwidget.widget.values),
                              termwidget.widget.selected)
         /\ Len(termwidget.widget.items) = Len(termwidget.widget.values)
    /\ IsMap =>
         /\ SelectionInBounds(Len(termwidget.widget.stations_widget.names),
                              termwidget.widget.stations_widget.selected)
         /\ SelectionInBounds(Len(termwidget.widget.segments_widget.names),
                              termwidget.widget.segments_widget.selected)

\* a map whose stations list was moved to its last entry by a Down key
C1_Witness ==
    /\ IsMap
    /\ last_key = "Down"
    /\ Len(termwidget.widget.stations_widget.names) = 2
    /\ termwidget.widget.stations_widget.selected = Some(1)
    /\ termwidget.widget.segments_widget.selected = None

\* every from-code and to-code of the document is the code of a station record
AllResolvable(doc) ==
    \A k \in 1..Len(doc.ordnungsrahmen.streckensegmente) :
        LET seg == doc.ordnungsrahmen.streckensegmente[k]
            bst == doc.ordnungsrahmen.betriebsstellen
        IN  /\ \E i \in 1..Len(bst) : bst[i].ds100 = seg.von
            /\ \E i \in 1..Len(bst) : bst[i].ds100 = seg.bis

\* station s of a graph is a copy of a station record of the document
CopyOfRecord(s, doc) ==
    \E i \in 1..Len(doc.ordnungsrahmen.betriebsstellen) :
        LET bst == doc.ordnungsrahmen.betriebsstellen[i]
        IN  /\ s.ds100 = bst.ds100
            /\ s.longname = bst.langname
            /\ s.coord = <<bst.x, bst.y>>

\* C2: try_into on a document whose segment codes all name a station record
\* succeeds; the graph has the stations in document order, as many segments
\* as the document in the same order, segment k's from and to are copies of
\* a station with segment k's from-code and to-code, and its route number is
\* preserved.
C2_BuildResolvesEverySegment ==
    (build_pc = "done" /\ AllResolvable(document)) =>
        /\ result[1].ok
        /\ LET map == result[1].value[1]
               bst == document.ordnungsrahmen.betriebsstellen
               seg == document.ordnungsrahmen.streckensegmente
           IN  /\ Len(map.stations) = Len(bst)
               /\ \A i \in 1..Len(bst) :
                      /\ map.stations[i].ds100 = bst[i].ds100
                      /\ map.stations[i].longname = bst[i].langname
                      /\ map.stations[i].coord = <<bst[i].x, bst[i].y>>
               /\ Len(map.segments) = Len(seg)
               /\ \A k \in 1..Len(seg) :
                      /\ map.segments[k].from.ds100 = seg[k].von
                      /\ map.segments[k].to.ds100 = seg[k].bis
                      /\ CopyOfRecord(map.segments[k].from, document)
                      /\ CopyOfRecord(map.segments[k].to, document)
                      /\ \E i \in 1..Len(map.stations) :
                             map.stations[i].ds100 = map.segments[k].from.ds100
                      /\ \E i \in 1..Len(map.stations) :
                             map.stations[i].ds100 = map.segments[k].to.ds100
                      /\ map.segments[k].routenumber = seg[k].streckennummer

\* a graph built from two segments, one of them between two different stations
C2_Witness ==
    /\ build_pc = "done"
    /\ AllResolvable(document)
    /\ result[1].ok
    /\ Len(result[1].value[1].segments) = 2
    /\ result[1].value[1].segments[1].from.ds100 = "A"
    /\ result[1].value[1].segments[1].to.ds100 = "B"
    /\ result[1].value[1].segments[2].routenumber = 42

\* C3: try_into on a document with a segment whose from-code or to-code is
\* no station record's code (exact equality) fails, the error names a code
\* that a segment uses and no station record has, and no graph is returned.
C3_BuildFailsOnAbsentCode ==
    (build_pc = "done" /\ ~AllResolvable(document)) =>
        /\ ~result[1].ok
        /\ result[1].value = None
        /\ result[1].error # None
        /\ LET code == result[1].error[1].station
               bst == document.ordnungsrahmen.betriebsstellen
               seg == document.ordnungsrahmen.streckensegmente
           IN  /\ \A i \in 1..Len(bst) : bst[i].ds100 # code
               /\ \E k \in 1..Len(seg) : seg[k].von = code \/ seg[k].bis = code

\* a failed build of a document that has station "A" and a segment to "a"
C3_Witness ==
    /\ build_pc = "done"
    /\ ~result[1].ok
    /\ result[1].error[1].station = "a"
    /\ \E i \in 1..Len(document.ordnungsrahmen.betriebsstellen) :
           document.ordnungsrahmen.betriebsstellen[i].ds100 = "A"
    /\ Len(document.ordnungsrahmen.streckensegmente) = 2
    /\ document.ordnungsrahmen.streckensegmente[1].von = "A"
    /\ document.ordnungsrahmen.streckensegmente[1].bis = "B"

\* C4 (as claimed): after a load that failed with a transport error, a
\* format error or a reference error, main is still in its loop and the live
\* widget is still the picker.
C4_FailedLoadStaysInPicker ==
    last_load \in {"transport", "format", "reference"} =>
        /\ pc # "done"
        /\ IsPicker

LoadSucceeds == pc = "await" /\ last_load' = "ok"

\* C6: a load that succeeds makes the map the live widget with the stations
\* list active, the stations selection 0 if the graph has a station, the
\* segments selection 0 if the graph has a segment and None otherwise; the
\* coordinates and the extent of a live map never change.
C6_SuccessfulLoadEntersMap ==
    [][/\ LoadSucceeds =>
            /\ IsPicker
            /\ termwidget'.tag = "Map"
            /\ LET w == termwidget'.widget
               IN  /\ w.widget_selection = "Stations"
                   /\ Len(w.station_map.stations) >= 1 =>
                          w.stations_widget.selected = Some(0)
                   /\ Len(w.station_map.segments) >= 1 =>
                          w.segments_widget.selected = Some(0)
                   /\ Len(w.station_map.segments) = 0 =>
                          w.segments_widget.selected = None
       /\ IsMap =>
            /\ termwidget'.tag = "Map"
            /\ termwidget'.widget.extent = termwidget.widget.extent
            /\ termwidget'.widget.coordinates = termwidget.widget.coordinates]_vars

\* a map entered with a graph without segments, one key handled since
C6_Witness ==
    /\ IsMap
    /\ last_load = "ok"
    /\ last_key = "s"
    /\ termwidget.widget.segments_widget.selected = None
    /\ termwidget.widget.stations_widget.selected = Some(0)
    /\ termwidget.widget.extent.max_x = 1

\* C7: at most one load is in flight; while one is, main receives no event;
\* events leave the channel one at a time and in the order they were sent.
C7_LoadBlocksTheLoop ==
    [][/\ Len(in_flight') <= 1
       /\ in_flight # <<>> =>
            /\ n_received' = n_received
            /\ termwidget' # termwidget => pc = "await"
       /\ n_received' # n_received =>
            /\ n_received' = n_received + 1
            /\ in_flight = <<>>
            /\ queue # <<>>
            /\ Head(queue).seq = n_received'
            /\ last_key' = Head(queue).key
            /\ queue' = Tail(queue)]_vars

\* two keys were sent while a load was in flight
C7_Witness ==
    /\ pc = "await"
    /\ Len(in_flight) = 1
    /\ Len(queue) = 2
    /\ n_received = 1

\* C8: when main receives the quit key the loop ends, in the picker and in
\* the map alike, with the live widget and the loads unchanged.
C8_QuitEndsTheLoop ==
    [][(pc = "recv" /\ queue # <<>> /\ Head(queue).key = "q"
            /\ n_received' = n_received + 1) =>
           /\ pc' = "done"
           /\ exit' \in {"ok", "error"}
           /\ termwidget' = termwidget
           /\ in_flight' = in_flight
           /\ last_load' = last_load]_vars

\* main ended on a quit key received in a map view on its segments list
C8_Witness ==
    /\ pc = "done"
    /\ last_key = "q"
    /\ IsMap
    /\ termwidget.widget.widget_selection = "Segments"

\* C9: in the map view an Up or Down key changes nothing but the selected
\* index of the active list.
C9_UpDownMovesOnlyTheActiveList ==
    [][(IsMap /\ (Received("Up") \/ Received("Down"))) =>
           LET w == termwidget.widget
               v == termwidget'.widget
           IN  /\ termwidget'.tag = "Map"
               /\ v.widget_selection = w.widget_selection
               /\ v.station_map = w.station_map
               /\ v.coordinates = w.coordinates
               /\ v.extent = w.extent
               /\ v.stations_widget.names = w.stations_widget.names
               /\ v.segments_widget.names = w.segments_widget.names
               /\ w.widget_selection = "Stations" =>
                      v.segments_widget = w.segments_widget
               /\ w.widget_selection = "Segments" =>
                      v.stations_widget = w.stations_widget]_vars

\* a Down key moved the segments list while the stations list stayed at 0
C9_Witness ==
    /\ IsMap
    /\ last_key = "Down"
    /\ termwidget.widget.widget_selection = "Segments"
    /\ termwidget.widget.segments_widget.selected = Some(1)
    /\ termwidget.widget.stations_widget.selected = Some(0)

\* C10: in the map view 'b' makes the stations list active and 's' the
\* segments list, whatever the active list was, and neither key changes the
\* selected index of either list.
C10_SwitchKeysKeepSelections ==
    [][(IsMap /\ (Received("b") \/ Received("s"))) =>
           LET w == termwidget.widget
               v == termwidget'.widget
           IN  /\ termwidget'.tag = "Map"
               /\ Received("b") => v.widget_selection = "Stations"
               /\ Received("s") => v.widget_selection = "Segments"
               /\ v.stations_widget.selected = w.stations_widget.selected
               /\ v.segments_widget.selected = w.segments_widget.selected]_vars

\* 's' was handled after the stations list had been moved to index 1
C10_Witness ==
    /\ IsMap
    /\ last_key = "s"
    /\ termwidget.widget.widget_selection = "Segments"
    /\ termwidget.widget.stations_widget.selected = Some(1)
    /\ termwidget.widget.segments_widget.selected = Some(0)

\* the list of the harness, and its length
SelLen == Len(sel_widget.values)

\* C11: on a list of length len, an Up followed by a Down applied to a
\* selection i with 0 < i < len - 1 gives i again, and so does a Down
\* followed by an Up.
C11_UpThenDownReturns ==
    \A j \in 1..Len(sel_moves) - 1 :
        (/\ sel_trace[j] # None
         /\ 0 < sel_trace[j][1]
         /\ sel_trace[j][1] < SelLen - 1
         /\ sel_moves[j] # sel_moves[j + 1]) =>
            /\ sel_trace[j + 1] # sel_trace[j]
            /\ sel_trace[j + 2] = sel_trace[j]

\* Up then Down was applied to index 1 of a list of three
C11_Witness ==
    /\ SelLen = 3
    /\ sel_trace[1] = Some(1)
    /\ sel_moves = <<"Up", "Down">>
    /\ sel_trace[2] = Some(0)

\* the smaller of two numbers
Min2(a, b) == IF a <= b THEN a ELSE b

\* C12: Up at index 0 leaves the selection at 0 and Down at the last index
\* leaves it at the last index, however often repeated; on a picker with
\* n >= 1 summaries whose selection starts at 0, k Downs in a row leave the
\* selection at min(k, n - 1).
C12_MovesClampAndNeverWrap ==
    /\ \A j \in 1..Len(sel_moves) :
           /\ (sel_trace[j] = Some(0) /\ SelLen >= 1 /\ sel_moves[j] = "Up") =>
                  sel_trace[j + 1] = Some(0)
           /\ (sel_trace[j] = Some(SelLen - 1) /\ SelLen >= 1
                   /\ sel_moves[j] = "Down") =>
                  sel_trace[j + 1] = Some(SelLen - 1)
    /\ (/\ SelLen >= 1
        /\ sel_trace[1] = Some(0)
        /\ \A j \in 1..Len(sel_moves) : sel_moves[j] = "Down") =>
           sel_widget.selected = Some(Min2(Len(sel_moves), SelLen - 1))

\* three Downs on a picker with three summaries: 0, 1, 2, 2
C12_Witness ==
    /\ SelLen = 3
    /\ sel_moves = <<"Down", "Down", "Down">>
    /\ sel_trace = <<Some(0), Some(1), Some(2), Some(2)>>

\* no coordinate of the slice is NaN
NoNaN(coords) ==
    \A i \in 1..Len(coords) : coords[i][1] # NaN /\ coords[i][2] # NaN

\* C13: for a non-empty slice without NaN calc_extent returns an Extent
\* whose bounds enclose every coordinate and are each attained by one.
C13_ExtentEnclosesEveryCoordinate ==
    (ext_pc = "done" /\ ext_coords # <<>> /\ NoNaN(ext_coords)) =>
        /\ ~ext_result[1].panic
        /\ LET e == ext_result[1].value[1]
               I == 1..Len(ext_coords)
           IN  /\ \A i \in I :
                      /\ e.min_x <= ext_coords[i][1]
                      /\ ext_coords[i][1] <= e.max_x
                      /\ e.min_y <= ext_coords[i][2]
                      /\ ext_coords[i][2] <= e.max_y
               /\ \E i \in I : ext_coords[i][1] = e.min_x
               /\ \E i \in I : ext_coords[i][1] = e.max_x
               /\ \E i \in I : ext_coords[i][2] = e.min_y
               /\ \E i \in I : ext_coords[i][2] = e.max_y
               /\ e.min_x <= e.max_x
               /\ e.min_y <= e.max_y

\* the extent of (2, 0), (0, 1)
C13_Witness ==
    /\ ext_pc = "done"
    /\ ext_coords = <<<<2, 0>>, <<0, 1>>>>
    /\ ext_result[1].value[1] = [min_x |-> 0, max_x |-> 2, min_y |-> 0, max_y |-> 1]

\* C14: calc_extent on an empty slice panics instead of returning an
\* Extent, so no map view exists for a graph without stations: the load of
\* such a graph ends the program with a panic, and every live map has a
\* coordinate and an Extent whose bounds are attained.
C14_NoExtentForEmptyCoordinates ==
    /\ calc_extent(<<>>) = Panic
    /\ IsMap =>
         LET w == termwidget.widget
         IN  /\ Len(w.station_map.stations) >= 1
             /\ Len(w.coordinates) = Len(w.station_map.stations)
             /\ \E i \in 1..Len(w.coordinates) : w.coordinates[i][1] = w.extent.min_x
             /\ \E i \in 1..Len(w.coordinates) : w.coordinates[i][1] = w.extent.max_x
             /\ \E i \in 1..Len(w.coordinates) : w.coordinates[i][2] = w.extent.min_y
             /\ \E i \in 1..Len(w.coordinates) : w.coordinates[i][2] = w.extent.max_y
    /\ last_load = "panic" =>
         /\ pc = "done"
         /\ exit = "panic"
         /\ IsPicker

\* the load of a graph without stations ended the program with a panic
C14_Witness ==
    /\ last_load = "panic"
    /\ exit = "panic"
    /\ last_key = "Enter"
    /\ in_flight = <<>>

\* C15 (as claimed): calc_extent on a slice that holds a NaN panics instead
\* of returning an Extent.
C15_NaNIsRejected ==
    (ext_pc = "done" /\ ~NoNaN(ext_coords)) => ext_result[1].panic

\* code c is the code of no station record of the document
Absent(doc, c) ==
    \A i \in 1..Len(doc.ordnungsrahmen.betriebsstellen) :
        doc.ordnungsrahmen.betriebsstellen[i].ds100 # c

\* segment record k of the document names an absent code
Offending(doc, k) ==
    \/ Absent(doc, doc.ordnungsrahmen.streckensegmente[k].von)
    \/ Absent(doc, doc.ordnungsrahmen.streckensegmente[k].bis)

\* C16: a failed build names the first unresolved code in processing order
\* (segments in document order, from-code before to-code) and carries the
\* label from-routenumber-to of that segment.
C16_ErrorNamesFirstUnresolvedCode ==
    (build_pc = "done" /\ ~AllResolvable(document)) =>
        LET seg == document.ordnungsrahmen.streckensegmente
            k == CHOOSE k \in 1..Len(seg) :
                     /\ Offending(document, k)
                     /\ \A j \in 1..k - 1 : ~Offending(document, j)
        IN  /\ ~result[1].ok
            /\ result[1].error[1].station =
                   IF Absent(document, seg[k].von) THEN seg[k].von ELSE seg[k].bis
            /\ result[1].error[1].segment =
                   seg[k].von \o "-" \o ToString(seg[k].streckennummer)
                       \o "-" \o seg[k].bis

\* the second segment names two absent codes, "a" before "B"
C16_Witness ==
    /\ build_pc = "done"
    /\ Len(document.ordnungsrahmen.streckensegmente) = 2
    /\ ~Offending(document, 1)
    /\ document.ordnungsrahmen.streckensegmente[2] = Streckensegment("a", "B", 42)
    /\ Absent(document, "B")
    /\ result[1].error[1] = [station |-> "a", segment |-> "a-42-B"]

\* the last station record of the document with code c, as a Station
LastRecord(doc, c) ==
    LET bst == doc.ordnungsrahmen.betriebsstellen
        i == CHOOSE i \in 1..Len(bst) :
                 /\ bst[i].ds100 = c
                 /\ \A j \in i + 1..Len(bst) : bst[j].ds100 # c
    IN  [ds100 |-> bst[i].ds100, longname |-> bst[i].langname,
         coord |-> <<bst[i].x, bst[i].y>>]

\* C17: with several station records of one code the build succeeds, the
\* graph keeps every record in document order, and every endpoint with that
\* code is a copy of the last such record.
C17_LastDuplicateWins ==
    (build_pc = "done" /\ AllResolvable(document)) =>
        /\ result[1].ok
        /\ LET map == result[1].value[1]
               bst == document.ordnungsrahmen.betriebsstellen
               seg == document.ordnungsrahmen.streckensegmente
           IN  /\ Len(map.stations) = Len(bst)
               /\ \A i \in 1..Len(bst) :
                      map.stations[i] =
                          [ds100 |-> bst[i].ds100, longname |-> bst[i].langname,
                           coord |-> <<bst[i].x, bst[i].y>>]
               /\ Len(map.segments) = Len(seg)
               /\ \A k \in 1..Len(seg) :
                      /\ map.segments[k].from = LastRecord(document, seg[k].von)
                      /\ map.segments[k].to = LastRecord(document, seg[k].bis)

\* two different records of code "A", and a segment resolved to the second
C17_Witness ==
    /\ build_pc = "done"
    /\ document.ordnungsrahmen.betriebsstellen =
           <<Betriebsstelle(0, 0, "A", "Alpha"), Betriebsstelle(1, 2, "A", "Beta")>>
    /\ Len(document.ordnungsrahmen.streckensegmente) = 1
    /\ result[1].ok
    /\ result[1].value[1].segments[1].from.longname = "Beta"
    /\ Len(result[1].value[1].stations) = 2

\* C18: Up and Down applied to an absent selection give index 0 on a
\* non-empty list and None on an empty one; on an empty list they give None
\* whatever the selection.
C18_MovesFromNone ==
    \A j \in 1..Len(sel_moves) :
        /\ (sel_trace[j] = None /\ SelLen >= 1) => sel_trace[j + 1] = Some(0)
        /\ SelLen = 0 => sel_trace[j + 1] = None

\* Up on a list of two with no selection, then Down
C18_Witness ==
    /\ SelLen = 2
    /\ sel_trace[1] = None
    /\ sel_moves = <<"Up", "Down">>
    /\ sel_trace[2] = Some(0)
    /\ sel_trace[3] = Some(1)

\* C19: the map becomes the live widget only when a load succeeds that the
\* Enter key requested in a picker with a selection; a load is requested by
\* nothing else; Enter on an empty picker and every other key but quit in
\* the picker request nothing and leave the picker the live widget.
C19_MapOnlyAfterConfirmedLoad ==
    [][/\ (IsPicker /\ termwidget'.tag = "Map") =>
            /\ pc = "await"
            /\ last_load' = "ok"
            /\ last_key = "Enter"
            /\ termwidget.widget.selected # None
            /\ in_flight =
                   <<termwidget.widget.values[termwidget.widget.selected[1] + 1].id>>
       /\ in_flight' # in_flight /\ in_flight' # <<>> =>
            /\ IsPicker
            /\ Received("Enter")
            /\ termwidget.widget.selected # None
            /\ termwidget' = termwidget
            /\ in_flight' =
                   <<termwidget.widget.values[termwidget.widget.selected[1] + 1].id>>
       /\ (IsPicker /\ Received("Enter") /\ termwidget.widget.values = <<>>) =>
            /\ termwidget' = termwidget
            /\ in_flight' = in_flight
            /\ pc' = "draw"
       /\ \A key \in Keys \ {"Enter", "q"} :
            (IsPicker /\ Received(key)) =>
                /\ termwidget'.tag = "InfrastrukturSelection"
                /\ termwidget'.widget.values = termwidget.widget.values
                /\ in_flight' = in_flight
                /\ pc' = "draw"]_vars

\* Enter was handled by a picker without summaries, and the loop goes on
C19_Witness ==
    /\ IsPicker
    /\ termwidget.widget.values = <<>>
    /\ last_key = "Enter"
    /\ pc = "draw"
    /\ in_flight = <<>>
    /\ last_load = "none"

\* C20: in every map view the stations list has one label per station of
\* the graph and the segments list one per segment, in the same order, and
\* the lookup that draw makes for a selection Some(i) finds station i
\* (segment i), the item whose label the list highlights.
C20_ListsMirrorTheGraph ==
    IsMap =>
        LET w == termwidget.widget
            d == MapWidget_draw_selected(w)
            st == w.station_map.stations
            sg == w.station_map.segments
        IN  /\ Len(w.stations_widget.names) = Len(st)
            /\ \A i \in 1..Len(st) :
                   w.stations_widget.names[i]
                       = st[i].ds100 \o " (" \o st[i].longname \o ")"
            /\ Len(w.segments_widget.names) = Len(sg)
            /\ \A i \in 1..Len(sg) :
                   w.segments_widget.names[i]
                       = ToString(sg[i].routenumber) \o " (" \o sg[i].from.ds100
                             \o " -> " \o sg[i].to.ds100 \o ")"
            /\ w.stations_widget.selected # None =>
                   /\ d.selected_station # None
                   /\ d.selected_station[1] = st[w.stations_widget.selected[1] + 1]
            /\ w.stations_widget.selected = None => d.selected_station = None
            /\ w.segments_widget.selected # None =>
                   /\ d.selected_segment # None
                   /\ d.selected_segment[1] = sg[w.segments_widget.selected[1] + 1]
            /\ w.segments_widget.selected = None => d.selected_segment = None

\* the third station of a graph is selected, and its first segment
C20_Witness ==
    /\ IsMap
    /\ last_key = "Down"
    /\ termwidget.widget.stations_widget.selected = Some(2)
    /\ termwidget.widget.stations_widget.names[3] = "A (Alt)"
    /\ termwidget.widget.segments_widget.selected = Some(0)
    /\ termwidget.widget.segments_widget.names[1] = "42 (A -> B)"

====
